---- MODULE Spec2Model ----
(***************************************************************************)
(* Data binding core of baukit/labwidget.py: Trigger, Property, the        *)
(* re-entrancy guard of notify, the Model's attribute table, the Widget's  *)
(* relay to its views over the jupyter (duplex) transport, the handling of *)
(* inbound view messages under capture_output, and the in-page Model of a  *)
(* view (WIDGET_MODEL_JS).                                                 *)
(*                                                                         *)
(* Python executes every call to completion on one thread, so each public  *)
(* call (on, off, set, trigger, _repr_html_, open_comm, handle_close) is   *)
(* one action.  The nested calls a call makes (trigger -> handle -> notify *)
(* -> listener -> handle ...) are computed by recursive operators over a   *)
(* record `s` that carries the mutable program state through the call.     *)
(***************************************************************************)
EXTENDS Integers, Sequences, FiniteSets, TLC

\* ------------------------------------------------------------------ bounds
MaxVal == 1
\* frames available to nested handle/trigger calls before RecursionError
RecursionLimit == 12
\* user listeners registered over all objects
MaxUser == 2
MaxViews == 1
\* messages held by the outbound queue
MaxRelay == 3
\* requests of the view that the backend has not handled yet
MaxUp == 2
\* views rendered where successive renderings are compared
MaxRender == 2
MaxSoon == 2

\* ---------------------------------------------------------------- universe
\* The widget owns a Property `style` and a Trigger `write`
\* (Widget.__init__); p and q are Properties created outside any Model.
Props == {"style", "p", "q"}
Trigs == {"write"}
Objs == Props \cup Trigs
Installed == {"style", "write"}
None == "None"
\* values: JSON atoms "v0".."vN" and None, and one object that the
\* permissive serializer cannot represent.
Atoms == {"v" \o ToString(i) : i \in 0..MaxVal}
Values == Atoms \cup {None, "obj"}
\* the two texts capture_output writes above the widget: the captured
\* stdout/stderr, and the formatted traceback
Captured == "captured"
TraceBack == "traceback"
Texts == {Captured, TraceBack}
CommIds == {"c1", "c2"}
\* attribute names of the widget: the two Widget.__init__ installs, and one
\* that holds no Trigger
AttrNames == Installed \cup {"note"}
\* what the view reads for a name it has received no value for
Undefined == "undefined"
\* Model._sent[name]: absent, or an array holding at most the pending value
NoSent == [has |-> FALSE, val |-> <<>>]
\* an attribute name that is no key of the snapshot a view is seeded with
Absent == "absent"

VARIABLES parent, value, listeners, stack, env, viewcount, comms, queue,
          wire, pc, last,
          \* the widget's attribute table, and what capture_output wrote
          \* above the widget during the last inbound message
          attr, report,
          \* the name and target attributes of every Trigger
          names, targets,
          \* the first rendered view: requests it has sent that the backend
          \* has not handled, its cache (_data), its pending markers (_sent),
          \* how many messages of its comm it has received, which of those
          \* messages answer a request of this view, and its last step
          up, vdata, vsent, vpos, echo, vlast,
          \* the registry of the warnings module for no_env_warning and the
          \* number of warnings it has shown
          warned,
          \* history of the last call, recorded in the behaviours that start
          \* with recording switched on: the parent a set call found, the
          \* objects whose handle ran and those whose handle was called by
          \* trigger itself, the number of entries an off call removed, the
          \* snapshot and the element id of the last rendering, and the
          \* element ids of all renderings
          trace

\* the variables of the widget's attribute table and of the view
modelvars == <<attr, report, names, targets, warned, trace>>
viewvars == <<up, vdata, vsent, vpos, echo, vlast>>

vars == <<parent, value, listeners, stack, env, viewcount, comms, queue,
          wire, pc, last, attr, report, names, targets,
          up, vdata, vsent, vpos, echo, vlast, warned, trace>>

\* ------------------------------------------------------------ python values
\* An argument of set/trigger is a plain value, an Event wrapping a value,
\* or a reference to a Trigger/Property object.
\* Every argument is a record (k, v, name, target): k is its class, v the
\* plain value, the object referred to, or the Event's value attribute.
Plain(v) == [k |-> "val", v |-> v, name |-> None, target |-> None]
Ref(x) == [k |-> "ref", v |-> x, name |-> None, target |-> None]
IsEvent(arg) == arg.k = "event"
\* Event.value
EventValue(ev) == ev.v
\* Event.__init__: an Event built from an Event takes the inner value.
Event(arg, name, target) ==
    [k |-> "event",
     v |-> IF IsEvent(arg) THEN EventValue(arg) ELSE arg.v,
     name |-> name, target |-> target]
IsTrigger(arg) == arg.k = "ref" /\ arg.v \in Objs
IsProperty(arg) == arg.k = "ref" /\ arg.v \in Props

\* Trigger.name and Trigger.target: None from Trigger.__init__, assigned
\* by Model._initprop_ when the object is installed in the widget.
Name(x) == names[x]
Target(x) == targets[x]

\* The handshake comm.send('ok'), written as a message no property has.
OkMsg == [name |-> "ok", value |-> None]

\* jsoncopy / jsondump of one value: atoms are kept, anything the
\* serializer cannot represent becomes null.
is_json_atom(v) == v \in Atoms \cup {None} \cup Texts
jsoncopy(v) == IF is_json_atom(v) THEN v ELSE None

\* jsoncopy of a list of (name, value) messages
JsonMsgs(ms) ==
    [i \in 1..Len(ms) |->
        [name |-> ms[i].name, value |-> jsoncopy(ms[i].value)]]

\* ---------------------------------------------------------------- listeners
\* A listener entry is (cb, internal).  cb is a bound method x.handle, the
\* widget's _send_to_js_, or a user callback.
HandleOf(x) == [kind |-> "handle", obj |-> x]
SendCb == [kind |-> "send", obj |-> "widget"]
UserCb(id) == [kind |-> "user", obj |-> id]
\* the default argument of off: cb=None
NoCb == [kind |-> "none", obj |-> None]
Entry(cb, internal) == [cb |-> cb, internal |-> internal]

\* User callbacks (the functions a caller passes to on): rec1 takes the
\* Event, rec0 takes no argument, copy writes the Event's value into the
\* widget's Property style, boom raises, say prints a line.
UserCbs == {"rec1", "rec0", "copy", "boom", "say"}
CopyTo == "style"

\* Trigger.on
on(ls, cb, internal) == Append(ls, Entry(cb, internal))

\* off as it would be if off() without a callback removed nothing
off_KeepAll(ls, cb) == SelectSeq(ls, LAMBDA e : e.cb # cb)

\* off as it would be if it kept the internal entries
off_UserOnly(ls, cb) ==
    SelectSeq(ls, LAMBDA e : (e.cb # cb \/ e.internal) /\ cb # NoCb)

\* Trigger.off: keeps (c, i) when c != cb and cb is not None
off(ls, cb) == SelectSeq(ls, LAMBDA e : e.cb # cb /\ cb # NoCb)

\* ------------------------------------------------------ the call-state record
\* exc is the exception in flight ("none" when there is none); "hang" marks
\* a call that never returns.
Raise(s, e) == IF s.exc = "none" THEN [s EXCEPT !.exc = e] ELSE s

\* the guard as it would be if it silenced only from the second nested
\* level on, and as it would be if it also silenced internal listeners
Silence_Deep(s, internal) == (~internal) /\ Len(s.stack) > 1
Silence_Internal(s, internal) == Len(s.stack) > 0

\* enter_handler.__init__ / __enter__ / __exit__
Silence(s, internal) == (~internal) /\ Len(s.stack) > 0
Enter(s, name, internal) ==
    IF internal THEN s
    ELSE [s EXCEPT !.stack = Append(@, [name |-> name,
                                         silence |-> Silence(s, internal)])]
\* __exit__ as it would be if it were skipped when the listener raised
Exit_LeakOnRaise(s, internal) ==
    IF internal \/ s.exc # "none" THEN s
    ELSE [s EXCEPT !.stack = SubSeq(@, 1, Len(@) - 1)]

\* __exit__ as it would be if it left its entry on the stack
Exit_NoPop(s, internal) == s

Exit(s, internal) ==
    IF internal THEN s
    ELSE [s EXCEPT !.stack = SubSeq(@, 1, Len(@) - 1)]

\* warnings.warn as it would be if every call showed the warning
warn_Always(w) == [registry |-> TRUE, shown |-> w.shown + 1]

\* warnings.warn under the default filter: the warning is shown when the
\* registry of the calling module does not hold it, and is then entered
warn(w) ==
    IF w.registry THEN w ELSE [registry |-> TRUE, shown |-> w.shown + 1]

\* no_env_warning
no_env_warning(s) == [s EXCEPT !.warned = warn(@)]

\* _send_to_js_ as it would be without the test of the view counter
SendToJs_NoViewTest(s, ev) ==
    IF ev.target # "widget" THEN Raise(s, "AssertionError")
    ELSE LET args == [name |-> ev.name, value |-> EventValue(ev)]
             wireargs == [name |-> ev.name,
                          value |-> jsoncopy(EventValue(ev))]
             s1 == [s EXCEPT !.relayed = Append(@, wireargs),
                             !.order = Append(@, "relay")]
         IN  CASE s.env = "colab" -> s1
               [] s.env = "jupyter" ->
                    IF s.comms = <<>>
                    THEN [s1 EXCEPT !.queue = Append(@, args)]
                    ELSE [s1 EXCEPT !.wire =
                            [c \in CommIds |->
                               IF \E i \in 1..Len(s.comms) : s.comms[i] = c
                               THEN Append(@[c], wireargs) ELSE @[c]]]
               [] OTHER -> no_env_warning(s)

\* _send_to_js_ as it would be if it queued the message in every case
SendToJs_QueueToo(s, ev) ==
    IF s.viewcount > 0
    THEN IF ev.target # "widget" THEN Raise(s, "AssertionError")
         ELSE LET args == [name |-> ev.name, value |-> EventValue(ev)]
                  wireargs == [name |-> ev.name,
                               value |-> jsoncopy(EventValue(ev))]
                  s1 == [s EXCEPT !.relayed = Append(@, wireargs),
                                  !.order = Append(@, "relay")]
              IN  CASE s.env = "colab" -> s1
                    [] s.env = "jupyter" ->
                         [s1 EXCEPT !.queue = Append(@, args),
                                    !.wire =
                                 [c \in CommIds |->
                                    IF \E i \in 1..Len(s.comms) : s.comms[i] = c
                                    THEN Append(@[c], wireargs) ELSE @[c]]]
                    [] OTHER -> no_env_warning(s)
    ELSE s

\* Widget._send_to_js_
SendToJs(s, ev) ==
    IF s.viewcount > 0
    THEN IF ev.target # "widget" THEN Raise(s, "AssertionError")
         ELSE LET args == [name |-> ev.name, value |-> EventValue(ev)]
                  wireargs == [name |-> ev.name,
                               value |-> jsoncopy(EventValue(ev))]
                  s1 == [s EXCEPT !.relayed = Append(@, wireargs),
                                  !.order = Append(@, "relay")]
              IN  CASE s.env = "colab" -> s1
                    [] s.env = "jupyter" ->
                         IF s.comms = <<>>
                         THEN [s1 EXCEPT !.queue = Append(@, args)]
                         ELSE [s1 EXCEPT !.wire =
                                 [c \in CommIds |->
                                    IF \E i \in 1..Len(s.comms) : s.comms[i] = c
                                    THEN Append(@[c], wireargs) ELSE @[c]]]
                    [] OTHER -> no_env_warning(s)
    ELSE s

RECURSIVE Handle(_, _, _), Notify(_, _, _, _), Invoke(_, _, _),
          PropertySet(_, _, _), TriggerCall(_, _, _), TriggerSet(_, _, _),
          Ancestors(_, _, _, _)

\* Trigger.notify, from the i-th listener on.  An exception raised by a
\* listener leaves the loop after enter_handler.__exit__ has run.
Notify(s, x, v, i) ==
    IF s.exc # "none" \/ i > Len(s.listeners[x]) THEN s
    ELSE LET e == s.listeners[x][i]
             s1 == Enter(s, Name(x), e.internal)
             s2 == IF Silence(s, e.internal) THEN s1
                   ELSE Invoke(s1, [cb |-> e.cb, on |-> x],
                               Event(Plain(v), Name(x), Target(x)))
             s3 == Exit(s2, e.internal)
         IN  Notify(s3, x, v, i + 1)

\* One listener call: cb() or cb(Event(...)).
Invoke(s, c, ev) ==
    CASE c.cb.kind = "handle" -> Handle(s, c.cb.obj, ev)
      [] c.cb.kind = "send" -> SendToJs(s, ev)
      [] OTHER ->
         LET s1 == [s EXCEPT !.user = @ + 1,
                             !.order = Append(@, c.cb.obj),
                             !.calls = Append(@,
                                [obj |-> c.on, cb |-> c.cb.obj,
                                 value |-> IF c.cb.obj = "rec0" THEN "noarg"
                                           ELSE EventValue(ev),
                                 name |-> ev.name,
                                 held |-> IF c.on \in Props
                                          THEN s.value[c.on] ELSE None,
                                 nested |-> s.user])]
             s2 == CASE c.cb.obj = "copy" ->
                           PropertySet(s1, CopyTo, Plain(EventValue(ev)))
                      [] c.cb.obj = "boom" -> Raise(s1, "Raised")
                      [] c.cb.obj = "say" -> [s1 EXCEPT !.out = TRUE]
                      [] OTHER -> s1
         IN  [s2 EXCEPT !.user = @ - 1]

\* handle as it would be if Property.handle did not store the value
Handle_NoStore(s, x, arg) ==
    IF s.exc # "none" THEN s
    ELSE IF s.depth >= RecursionLimit THEN Raise(s, "RecursionError")
    ELSE LET v == IF IsEvent(arg) THEN EventValue(arg) ELSE arg.v
             s1 == [s EXCEPT !.depth = @ + 1, !.handled = Append(@, x)]
             s3 == Notify(s1, x, v, 1)
         IN  [s3 EXCEPT !.depth = @ - 1]

\* handle as it would be if Property.handle notified before it stored
Handle_NotifyFirst(s, x, arg) ==
    IF s.exc # "none" THEN s
    ELSE IF s.depth >= RecursionLimit THEN Raise(s, "RecursionError")
    ELSE LET v == IF IsEvent(arg) THEN EventValue(arg) ELSE arg.v
             s1 == [s EXCEPT !.depth = @ + 1, !.handled = Append(@, x)]
             s2 == Notify(s1, x, v, 1)
             s3 == IF x \in Props /\ s2.exc = "none"
                   THEN [s2 EXCEPT !.value[x] = v] ELSE s2
         IN  [s3 EXCEPT !.depth = @ - 1]

\* Trigger.handle and Property.handle
Handle(s, x, arg) ==
    IF s.exc # "none" THEN s
    ELSE IF s.depth >= RecursionLimit THEN Raise(s, "RecursionError")
    ELSE LET v == IF IsEvent(arg) THEN EventValue(arg) ELSE arg.v
             s1 == [s EXCEPT !.depth = @ + 1, !.handled = Append(@, x)]
             s2 == IF x \in Props THEN [s1 EXCEPT !.value[x] = v] ELSE s1
             s3 == Notify(s2, x, v, 1)
         IN  [s3 EXCEPT !.depth = @ - 1]

\* trigger as it would be if the parent handled what a child forwards
TriggerCall_OneHop(s, x, arg) ==
    IF s.exc # "none" THEN s
    ELSE IF s.depth >= RecursionLimit THEN Raise(s, "RecursionError")
    ELSE IF s.parent[x] # None
         THEN Handle([s EXCEPT !.direct = Append(@, s.parent[x])],
                     s.parent[x], arg)
         ELSE Handle([s EXCEPT !.direct = Append(@, x)], x, arg)

\* trigger as it would be if it called handle on self whatever the parent
TriggerCall_Local(s, x, arg) ==
    IF s.exc # "none" THEN s
    ELSE IF s.depth >= RecursionLimit THEN Raise(s, "RecursionError")
    ELSE Handle([s EXCEPT !.direct = Append(@, x)], x, arg)

\* Trigger.trigger: forwarded along the parent links to the root.
TriggerCall(s, x, arg) ==
    IF s.exc # "none" THEN s
    ELSE IF s.depth >= RecursionLimit THEN Raise(s, "RecursionError")
    ELSE IF s.parent[x] # None
         THEN LET s1 == TriggerCall([s EXCEPT !.depth = @ + 1],
                                    s.parent[x], arg)
              IN  [s1 EXCEPT !.depth = @ - 1]
         ELSE Handle([s EXCEPT !.direct = Append(@, x)], x, arg)

\* The ancestor walk of Trigger.set: "loop" when self is met, "ok" when the
\* walk reaches None, "hang" when it never ends (n counts the steps taken).
Ancestors(par, self, ancestor, n) ==
    IF ancestor = None THEN "ok"
    ELSE IF ancestor = self THEN "loop"
    ELSE IF n > Cardinality(Objs) THEN "hang"
    ELSE Ancestors(par, self, par[ancestor], n + 1)

\* Trigger.set as it would be if the old parent kept self.handle
TriggerSet_NoDetach(s, x, arg) ==
    LET s1 == IF s.parent[x] # None
              THEN [s EXCEPT !.parent[x] = None]
              ELSE s
    IN  IF IsTrigger(arg)
        THEN LET walk == Ancestors(s1.parent, x, s1.parent[arg.v], 0)
             IN  CASE walk = "loop" -> Raise(s1, "ValueError")
                   [] walk = "hang" -> Raise(s1, "hang")
                   [] OTHER ->
                      [s1 EXCEPT !.parent[x] = arg.v,
                                 !.listeners[arg.v] =
                                     on(@, HandleOf(x), TRUE)]
        ELSE IF x \notin Props THEN Raise(s1, "ValueError")
        ELSE s1

\* Trigger.set as it would be if the new parent did not get self.handle
TriggerSet_NoRegister(s, x, arg) ==
    LET s1 == IF s.parent[x] # None
              THEN [s EXCEPT !.listeners[s.parent[x]] = off(@, HandleOf(x)),
                             !.parent[x] = None]
              ELSE s
    IN  IF IsTrigger(arg)
        THEN LET walk == Ancestors(s1.parent, x, s1.parent[arg.v], 0)
             IN  CASE walk = "loop" -> Raise(s1, "ValueError")
                   [] walk = "hang" -> Raise(s1, "hang")
                   [] OTHER -> [s1 EXCEPT !.parent[x] = arg.v]
        ELSE IF x \notin Props THEN Raise(s1, "ValueError")
        ELSE s1

\* Trigger.set
TriggerSet(s, x, arg) ==
    LET s1 == IF s.parent[x] # None
              THEN [s EXCEPT !.listeners[s.parent[x]] = off(@, HandleOf(x)),
                             !.parent[x] = None]
              ELSE s
    IN  IF IsTrigger(arg)
        THEN LET walk == Ancestors(s1.parent, x, s1.parent[arg.v], 0)
             IN  CASE walk = "loop" -> Raise(s1, "ValueError")
                   [] walk = "hang" -> Raise(s1, "hang")
                   [] OTHER ->
                      [s1 EXCEPT !.parent[x] = arg.v,
                                 !.listeners[arg.v] =
                                     on(@, HandleOf(x), TRUE)]
        ELSE IF x \notin Props THEN Raise(s1, "ValueError")
        ELSE s1

\* Property.set as it would be without the test for a Trigger that is no
\* Property
PropertySet_NoTypeTest(s, x, arg) ==
    IF IsProperty(arg)
    THEN LET s1 == TriggerSet(s, x, arg)
         IN  IF s1.exc # "none" THEN s1
             ELSE Handle(s1, x, Plain(s1.value[arg.v]))
    ELSE TriggerCall(s, x, arg)

\* Property.set as it would be if binding did not adopt the parent's value
PropertySet_NoAdopt(s, x, arg) ==
    IF IsProperty(arg) THEN TriggerSet(s, x, arg)
    ELSE IF IsTrigger(arg) THEN Raise(s, "ValueError")
    ELSE TriggerCall(s, x, arg)

\* Property.set
PropertySet(s, x, arg) ==
    IF IsProperty(arg)
    THEN LET s1 == TriggerSet(s, x, arg)
         IN  IF s1.exc # "none" THEN s1
             ELSE Handle(s1, x, Plain(s1.value[arg.v]))
    ELSE IF IsTrigger(arg) THEN Raise(s, "ValueError")
    ELSE TriggerCall(s, x, arg)

\* x.set(arg), dispatched on the class of x
SetCall(s, x, arg) ==
    IF x \in Props THEN PropertySet(s, x, arg) ELSE TriggerSet(s, x, arg)

\* Model.prop on the widget: the object bound to an attribute name, or
\* AttributeError for a name that is missing or holds no Trigger.
HasProp(at, n) == n \in DOMAIN at /\ at[n].k = "ref"

\* self.write(text) inside capture_output.__exit__; `reports` keeps the
\* texts handed to the write event.
WriteReport(s, text) ==
    TriggerCall([s EXCEPT !.reports = Append(@, text)], "write", Plain(text))

\* the end of __exit__: it returns None, so the body's exception `orig`
\* propagates unless a write raised first
Propagate(s, orig) ==
    IF s.exc # "none" THEN s ELSE [s EXCEPT !.exc = orig]

\* __exit__, second part: the traceback of `orig` is written when the body
\* raised; skipped when the write of the captured text raised
ExitTrace(s, orig) ==
    IF s.exc = "none" /\ orig # "none" THEN WriteReport(s, TraceBack) ELSE s

\* __exit__, first part: the captured text is written when the body printed
ExitOut(s) == IF s.out THEN WriteReport(s, Captured) ELSE s

\* capture_output.__enter__: sys.stdout and sys.stderr are saved and
\* replaced by the buffer of this capture
CaptureEnter(s) == [s EXCEPT !.saved = s.streams, !.streams = "buffer"]

\* __exit__, last statements: the saved streams are put back; not reached
\* when a write raised
Restore(s) == IF s.exc = "none" THEN [s EXCEPT !.streams = s.saved] ELSE s

\* capture_output.__exit__ after the body left exception `orig` ("none"
\* when it returned): the captured text and then the traceback are written
\* through the widget's write event; __exit__ returns None, so `orig`
\* propagates; an exception raised by a write propagates instead and
\* skips the rest of __exit__.
CaptureExit(s, orig) ==
    Propagate(Restore(ExitTrace(ExitOut([s EXCEPT !.exc = "none",
                                                  !.fault = orig]),
                                orig)),
              orig)

\* the with-statement around the body of handle_remote_set: __exit__ runs
\* with the exception the body left (a body that never returns has no exit)
WithCapture(body) ==
    IF body.exc = "hang" THEN body ELSE CaptureExit(body, body.exc)

\* handle_remote_set(name, value):
\*     with capture_output(self): self.prop(name).trigger(value)
RemoteSet(s, at, n, arg) ==
    WithCapture(IF HasProp(at, n)
                THEN TriggerCall(CaptureEnter(s), at[n].v, arg)
                ELSE Raise(CaptureEnter(s), "AttributeError"))

\* ------------------------------------------------------------------ actions
\* The program state at the start of a call.
Cur == [parent |-> parent, value |-> value, listeners |-> listeners,
        stack |-> stack, env |-> env, viewcount |-> viewcount,
        comms |-> comms, queue |-> queue, wire |-> wire,
        exc |-> "none", depth |-> 0, user |-> 0,
        calls |-> <<>>, relayed |-> <<>>,
        out |-> FALSE, reports |-> <<>>, fault |-> "none",
        warned |-> warned, handled |-> <<>>, direct |-> <<>>,
        order |-> <<>>, streams |-> report.streams,
        saved |-> report.streams]

\* The state a call leaves behind; `last` records the call, the exception
\* it raised, the user callbacks it invoked and the messages it handed to
\* the transport.
Return(s, op, x, arg) ==
    /\ parent' = s.parent
    /\ value' = s.value
    /\ listeners' = s.listeners
    /\ stack' = s.stack
    /\ queue' = s.queue
    /\ wire' = s.wire
    /\ pc' = IF s.exc = "hang" THEN "hung" ELSE "idle"
    /\ last' = [op |-> op, obj |-> x, arg |-> arg, exc |-> s.exc,
                calls |-> s.calls, relayed |-> s.relayed]
    /\ warned' = s.warned
    /\ trace' = IF trace.on
                THEN [trace EXCEPT
                        !.left = IF op = "set" THEN parent[x] ELSE None,
                        !.handled = s.handled,
                        !.direct = s.direct,
                        !.order = s.order,
                        !.removed = IF op = "off"
                                    THEN Len(listeners[x])
                                         - Len(s.listeners[x])
                                    ELSE 0]
                ELSE trace
    /\ UNCHANGED <<env, viewcount, comms>>
    /\ UNCHANGED <<attr, report, names, targets, viewvars>>

NoArg == [k |-> "none", v |-> None, name |-> None, target |-> None]
CbArg(cb) == [k |-> "cb", v |-> cb.obj, name |-> None, target |-> None]

PlainArgs == {Plain(v) : v \in Atoms}
EventArgs == {Event(Plain(v), None, None) : v \in Atoms}
ValueArgs == PlainArgs \cup EventArgs
SetArgs == ValueArgs \cup {Ref(y) : y \in Objs}

UserEntries(x) == Len(SelectSeq(listeners[x], LAMBDA e : e.cb.kind = "user"))
RECURSIVE Sum(_, _)
Sum(f, S) == IF S = {} THEN 0
             ELSE LET x == CHOOSE y \in S : TRUE IN f[x] + Sum(f, S \ {x})
TotalUser == Sum([x \in Objs |-> UserEntries(x)], Objs)
\* calls that may relay are taken while the queue holds fewer than MaxRelay
\* messages and every comm has carried at most the handshake, a full queue
\* and one more message
RelayRoom ==
    IF viewcount = 0 \/ env # "jupyter" THEN TRUE
    ELSE /\ Len(queue) < MaxRelay
         /\ \A c \in CommIds : Len(wire[c]) < MaxRelay + 2

\* x.on(cb)
On(x, id) ==
    /\ pc = "idle"
    /\ TotalUser < MaxUser
    /\ Return([Cur EXCEPT !.listeners[x] = on(@, UserCb(id), FALSE)],
              "on", x, CbArg(UserCb(id)))

\* x.off(cb) and x.off()
Off(x, cb) ==
    /\ pc = "idle"
    /\ Return([Cur EXCEPT !.listeners[x] = off(@, cb)], "off", x, CbArg(cb))

\* x.set(arg); for an installed object also model.name = arg
Set(x, arg) ==
    /\ pc = "idle"
    /\ RelayRoom
    /\ Return(SetCall(Cur, x, arg), "set", x, arg)

\* x.trigger(arg)
Fire(x, arg) ==
    /\ pc = "idle"
    /\ RelayRoom
    /\ Return(TriggerCall(Cur, x, arg), "trigger", x, arg)

\* The state the receive-handler leaves behind; `report` records the
\* exception of the body and the texts written to the view.
RemoteReturn(s, n, arg) ==
    /\ parent' = s.parent
    /\ value' = s.value
    /\ listeners' = s.listeners
    /\ stack' = s.stack
    /\ queue' = s.queue
    /\ wire' = s.wire
    /\ pc' = IF s.exc = "hang" THEN "hung" ELSE "idle"
    /\ last' = [op |-> "remote", obj |-> n, arg |-> arg,
                exc |-> s.exc, calls |-> s.calls,
                relayed |-> s.relayed]
    /\ report' = [fault |-> s.fault, writes |-> s.reports,
                  streams |-> s.streams]
    /\ warned' = s.warned
    /\ UNCHANGED <<env, viewcount, comms, attr, names, targets, trace>>

\* The receive-handler is called with an inbound message (name, value) of
\* a view.
Remote(n, arg) ==
    /\ pc = "idle"
    /\ RelayRoom
    /\ RemoteReturn(RemoteSet(Cur, attr, n, arg), n, arg)
    /\ UNCHANGED viewvars

\* Model.__setattr__ as it would be if it stored the value under a name
\* that holds a Trigger
Assign_Replace(n, arg) ==
    /\ pc = "idle"
    /\ RelayRoom
    /\ attr' = [attr EXCEPT ![n] = arg]
    /\ last' = [op |-> "assign", obj |-> n, arg |-> arg, exc |-> "none",
                calls |-> <<>>, relayed |-> <<>>]
    /\ UNCHANGED <<parent, value, listeners, stack, env, viewcount, comms,
                   queue, wire, pc, report, names, targets, viewvars,
                   warned, trace>>

\* widget.n = arg (Model.__setattr__, Widget._initprop_): delegated to set
\* when n holds a Trigger; stored when n holds something else; stored and
\* installed when n is a new name and arg is a Trigger.
Assign(n, arg) ==
    /\ pc = "idle"
    /\ RelayRoom
    /\ IF HasProp(attr, n)
       THEN Return(SetCall(Cur, attr[n].v, arg), "assign", n, arg)
       ELSE /\ attr' = [attr EXCEPT ![n] = arg]
            /\ IF attr[n].k = "none" /\ IsTrigger(arg)
               THEN /\ names' = [names EXCEPT ![arg.v] = n]
                    /\ targets' = [targets EXCEPT ![arg.v] = "widget"]
                    /\ listeners' = [listeners EXCEPT ![arg.v] =
                                        on(@, SendCb, TRUE)]
               ELSE UNCHANGED <<names, targets, listeners>>
            /\ last' = [op |-> "assign", obj |-> n, arg |-> arg,
                        exc |-> "none", calls |-> <<>>, relayed |-> <<>>]
            /\ UNCHANGED <<parent, value, stack, env, viewcount, comms,
                           queue, wire, pc, report, viewvars, warned, trace>>

\* the history before any call
NoTrace(rec) ==
    [on |-> rec, left |-> None, handled |-> <<>>, direct |-> <<>>,
     removed |-> 0, snapshot |-> [n \in AttrNames |-> Absent],
     viewid |-> 0, issued |-> <<>>, seeds |-> <<>>, order |-> <<>>]

\* One Widget() and two Property() objects have been constructed, under the
\* transport e that was detected when the module was loaded; Widget.__init__
\* has called _recv_from_js_, which warns when e is no known transport.
\* rec switches the recording of history on.
InitWith(e, rec) ==
    /\ parent = [x \in Objs |-> None]
    /\ value = [x \in Props |-> None]
    /\ listeners = [x \in Objs |->
                      IF x \in Installed THEN <<Entry(SendCb, TRUE)>>
                      ELSE <<>>]
    /\ stack = <<>>
    /\ env = e
    /\ viewcount = 0
    /\ comms = <<>>
    /\ queue = <<>>
    /\ wire = [c \in CommIds |-> <<>>]
    /\ pc = "idle"
    /\ last = [op |-> "init", obj |-> None, arg |-> NoArg, exc |-> "none",
               calls |-> <<>>, relayed |-> <<>>]
    /\ attr = [n \in AttrNames |-> IF n \in Installed THEN Ref(n) ELSE NoArg]
    /\ report = [fault |-> "none", writes |-> <<>>,
                 streams |-> "original"]
    /\ names = [x \in Objs |-> IF x \in Installed THEN x ELSE None]
    /\ targets = [x \in Objs |-> IF x \in Installed THEN "widget" ELSE None]
    /\ up = <<>>
    /\ vdata = [n \in Installed |-> Undefined]
    /\ vsent = [n \in Installed |-> NoSent]
    /\ vpos = 0
    /\ echo = {}
    /\ vlast = [op |-> "none", name |-> None, value |-> None,
                calls |-> <<>>, sent |-> <<>>, over |-> <<>>,
                soons |-> 0, wanted |-> None, lastsent |-> None]
    /\ warned = IF e \in {"colab", "jupyter"}
                THEN [registry |-> FALSE, shown |-> 0]
                ELSE warn([registry |-> FALSE, shown |-> 0])
    /\ trace = NoTrace(rec)

InitEnv(e) == InitWith(e, FALSE)
Init == InitEnv("jupyter")
InitColab == InitEnv("colab")

\* json_data of _repr_html_: the JSON text of the values of the Properties
\* among the widget's attributes, keyed by attribute name
Snapshot(at, val) ==
    [n \in AttrNames |->
        IF IsProperty(at[n]) THEN jsoncopy(val[at[n].v]) ELSE Absent]

\* view_id() for the view being rendered: the widget's id is fixed, the
\* view counter is what varies
view_id(count) == count

\* _repr_html_ as it would be if it left the view counter alone
RenderTo_NoCount(limit) ==
    /\ pc = "idle"
    /\ viewcount < limit
    /\ viewcount' = viewcount
    /\ last' = [op |-> "render", obj |-> None, arg |-> NoArg, exc |-> "none",
                calls |-> <<>>, relayed |-> <<>>]
    /\ trace' = IF trace.on
                THEN [trace EXCEPT
                        !.snapshot = Snapshot(attr, value),
                        !.viewid = view_id(viewcount'),
                        !.issued = Append(@, view_id(viewcount')),
                        !.seeds = Append(@, Snapshot(attr, value))]
                ELSE trace
    /\ UNCHANGED <<parent, value, listeners, stack, env, comms, queue, wire,
                   pc>>
    /\ UNCHANGED <<attr, report, names, targets, warned, viewvars>>

\* _repr_html_: a new view of the widget is rendered, while fewer than
\* limit views have been
RenderTo(limit) ==
    /\ pc = "idle"
    /\ viewcount < limit
    /\ viewcount' = viewcount + 1
    /\ last' = [op |-> "render", obj |-> None, arg |-> NoArg, exc |-> "none",
                calls |-> <<>>, relayed |-> <<>>]
    /\ trace' = IF trace.on
                THEN [trace EXCEPT
                        !.snapshot = Snapshot(attr, value),
                        !.viewid = view_id(viewcount'),
                        !.issued = Append(@, view_id(viewcount')),
                        !.seeds = Append(@, Snapshot(attr, value))]
                ELSE trace
    /\ UNCHANGED <<parent, value, listeners, stack, env, comms, queue, wire,
                   pc>>
    /\ UNCHANGED <<attr, report, names, targets, warned, viewvars>>

Render == RenderTo(MaxViews)

IsOpen(c) == \E i \in 1..Len(comms) : comms[i] = c

\* open_comm as it would be if 'ok' were sent after the queued messages
OpenComm_OkLast(c) ==
    /\ pc = "idle"
    /\ env = "jupyter"
    /\ viewcount > 0
    /\ wire[c] = <<>>
    /\ comms' = Append(comms, c)
    /\ wire' = [wire EXCEPT ![c] = JsonMsgs(queue) \o <<OkMsg>>]
    /\ queue' = <<>>
    /\ last' = [op |-> "open", obj |-> c, arg |-> NoArg, exc |-> "none",
                calls |-> <<>>, relayed |-> <<>>]
    /\ UNCHANGED <<parent, value, listeners, stack, env, viewcount, pc>>
    /\ UNCHANGED <<modelvars, viewvars>>

\* open_comm as it would be if the queue were sent without being cleared
OpenComm_NoClear(c) ==
    /\ pc = "idle"
    /\ env = "jupyter"
    /\ viewcount > 0
    /\ wire[c] = <<>>
    /\ comms' = Append(comms, c)
    /\ wire' = [wire EXCEPT ![c] = <<OkMsg>> \o JsonMsgs(queue)]
    /\ last' = [op |-> "open", obj |-> c, arg |-> NoArg, exc |-> "none",
                calls |-> <<>>, relayed |-> <<>>]
    /\ UNCHANGED <<parent, value, listeners, stack, env, viewcount, pc,
                   queue>>
    /\ UNCHANGED <<modelvars, viewvars>>

\* open_comm: the front end opens comm c on the widget's target
OpenComm(c) ==
    /\ pc = "idle"
    /\ env = "jupyter"
    /\ viewcount > 0
    /\ wire[c] = <<>>
    /\ comms' = Append(comms, c)
    /\ wire' = [wire EXCEPT ![c] = <<OkMsg>> \o JsonMsgs(queue)]
    /\ queue' = <<>>
    /\ last' = [op |-> "open", obj |-> c, arg |-> NoArg, exc |-> "none",
                calls |-> <<>>, relayed |-> <<>>]
    /\ UNCHANGED <<parent, value, listeners, stack, env, viewcount, pc>>
    /\ UNCHANGED <<modelvars, viewvars>>

\* handle_close as it would be if it dropped every comm
CloseComm_All(c) ==
    /\ pc = "idle"
    /\ IsOpen(c)
    /\ comms' = <<>>
    /\ last' = [op |-> "close", obj |-> c, arg |-> NoArg, exc |-> "none",
                calls |-> <<>>, relayed |-> <<>>]
    /\ UNCHANGED <<parent, value, listeners, stack, env, viewcount, queue,
                   wire, pc>>
    /\ UNCHANGED <<modelvars, viewvars>>

\* handle_close: comm c is closed by the front end
CloseComm(c) ==
    /\ pc = "idle"
    /\ IsOpen(c)
    /\ comms' = SelectSeq(comms, LAMBDA d : d # c)
    /\ last' = [op |-> "close", obj |-> c, arg |-> NoArg, exc |-> "none",
                calls |-> <<>>, relayed |-> <<>>]
    /\ UNCHANGED <<parent, value, listeners, stack, env, viewcount, queue,
                   wire, pc>>
    /\ UNCHANGED <<modelvars, viewvars>>

\* ------------------------------------------------------------------- view
\* The in-page Model of the first rendered view (WIDGET_MODEL_JS), over the
\* record w of its fields: data (_data), sent (_sent), up (what sendToPython
\* handed to the comm), calls (the view listeners invoked).
ViewComm == "c1"
Msg(n, val) == [name |-> n, value |-> val]
\* the listeners std_widget_js registers in the view with model.on
ViewListeners(n) == CASE n = "write" -> 1 [] n = "style" -> 2 [] OTHER -> 0

\* Model.trigger / sendToPython
trigger(w, n, val) ==
    [w EXCEPT !.up = Append(@, Msg(n, val)),
              !.sentmsgs = Append(@, Msg(n, val))]

\* Model.set as it would be if it wrote the value into the cache
set_Optimistic(w, n, val) ==
    trigger([w EXCEPT !.sent[n] = NoSent, !.data[n] = val], n, val)

\* Model.set
set(w, n, val) == trigger([w EXCEPT !.sent[n] = NoSent], n, val)

\* set_soon as it would be if it sent every value at once
set_soon_Eager(w, n, val) ==
    trigger([w EXCEPT !.sent[n] = [has |-> TRUE, val |-> <<>>]], n, val)

\* Model.set_soon
set_soon(w, n, val) ==
    IF ~w.sent[n].has
    THEN trigger([w EXCEPT !.sent[n] = [has |-> TRUE, val |-> <<>>]], n, val)
    ELSE [w EXCEPT !.sent[n] = [has |-> TRUE, val |-> <<val>>]]

\* the receive callback as it would be if it cleared the marker without
\* sending the pending value
receive_DropPending(w, n, val) ==
    LET w1 == [w EXCEPT !.data[n] = val,
                        !.calls = @ \o [i \in 1..ViewListeners(n) |->
                                           Msg(n, val)]]
    IN  IF w1.sent[n].has THEN [w1 EXCEPT !.sent[n] = NoSent] ELSE w1

\* the callback the Model constructor gives to recvFromPython
receive(w, n, val) ==
    LET w1 == [w EXCEPT !.data[n] = val,
                        !.calls = @ \o [i \in 1..ViewListeners(n) |->
                                           Msg(n, val)]]
    IN  IF w1.sent[n].has
        THEN LET pending == w1.sent[n].val
                 w2 == [w1 EXCEPT !.sent[n] = NoSent]
             IN  IF Len(pending) > 0 THEN set_soon(w2, n, pending[1])
                 ELSE w2
        ELSE w1

\* The view's fields at the start of a step, and the state a step leaves.
CurView == [data |-> vdata, sent |-> vsent, up |-> up, calls |-> <<>>,
            sentmsgs |-> <<>>]
ViewReturn(w, op, n, val) ==
    /\ vdata' = w.data
    /\ vsent' = w.sent
    /\ up' = w.up
    /\ vlast' = [op |-> op, name |-> n, value |-> val, calls |-> w.calls,
                 sent |-> w.sentmsgs,
                 over |-> IF n \in DOMAIN vsent THEN vsent[n].val ELSE <<>>,
                 soons |-> IF trace.on /\ op = "set_soon"
                           THEN vlast.soons + 1 ELSE vlast.soons,
                 wanted |-> IF trace.on /\ op = "set_soon"
                            THEN val ELSE vlast.wanted,
                 lastsent |-> IF trace.on /\ w.sentmsgs # <<>>
                              THEN w.sentmsgs[Len(w.sentmsgs)].value
                              ELSE vlast.lastsent]
    /\ UNCHANGED <<parent, value, listeners, stack, env, viewcount, comms,
                   queue, wire, pc, last, modelvars, echo>>

\* the view's script calls model.set_soon, model.set or model.trigger
ViewSetSoon(n, val) ==
    /\ pc = "idle" /\ viewcount > 0
    /\ vsent[n].has \/ Len(up) < MaxUp
    /\ vpos' = vpos
    /\ ViewReturn(set_soon(CurView, n, val), "set_soon", n, val)

ViewSet(n, val) ==
    /\ pc = "idle" /\ viewcount > 0 /\ Len(up) < MaxUp
    /\ vpos' = vpos
    /\ ViewReturn(set(CurView, n, val), "set", n, val)

ViewTrigger(n, val) ==
    /\ pc = "idle" /\ viewcount > 0 /\ Len(up) < MaxUp
    /\ vpos' = vpos
    /\ ViewReturn(trigger(CurView, n, val), "trigger", n, val)

\* the comm's on_msg callback in getChan: the next message of the comm
\* reaches the view; 'ok' is dropped, anything else goes to the Model.
Deliver ==
    /\ pc = "idle" /\ viewcount > 0
    /\ vpos < Len(wire[ViewComm])
    /\ vpos' = vpos + 1
    /\ LET m == wire[ViewComm][vpos + 1]
       IN  IF m = OkMsg THEN ViewReturn(CurView, "ok", None, None)
           ELSE ViewReturn(receive(CurView, m.name, m.value),
                           "recv", m.name, m.value)

\* _repr_html_ followed by the page running the emitted script: the first
\* view's Model is constructed with the snapshot of the Property values.
Display ==
    /\ pc = "idle"
    /\ viewcount < MaxViews
    /\ viewcount' = viewcount + 1
    /\ vdata' = IF viewcount = 0
                THEN [n \in Installed |->
                        IF n \in Props THEN jsoncopy(value[n])
                        ELSE Undefined]
                ELSE vdata
    /\ last' = [op |-> "render", obj |-> None, arg |-> NoArg, exc |-> "none",
                calls |-> <<>>, relayed |-> <<>>]
    /\ UNCHANGED <<parent, value, listeners, stack, env, comms, queue, wire,
                   pc, modelvars, up, vsent, vpos, echo, vlast>>

\* the first message for name n among those the comm carries after the
\* first k: its position, or 0
RECURSIVE FirstFor(_, _, _)
FirstFor(ms, n, k) ==
    IF k >= Len(ms) THEN 0
    ELSE IF ms[k + 1].name = n THEN k + 1
    ELSE FirstFor(ms, n, k + 1)

\* handle_comm: the backend takes the oldest request of the view and calls
\* the receive-handler with it; the first message for the same name that
\* the handling puts on the view's comm is the answer to the request.
BackendRecv ==
    /\ pc = "idle"
    /\ RelayRoom
    /\ IsOpen(ViewComm)
    /\ up # <<>>
    /\ RemoteReturn(RemoteSet(Cur, attr, Head(up).name, Plain(Head(up).value)),
                    Head(up).name, Plain(Head(up).value))
    /\ echo' = echo \cup ({FirstFor(wire'[ViewComm], Head(up).name,
                                    Len(wire[ViewComm]))} \ {0})
    /\ up' = Tail(up)
    /\ UNCHANGED <<vdata, vsent, vpos, vlast>>

\* The view's requests, under jupyter with one comm: the program sets
\* style, the view's script calls set_soon, messages travel both ways.
ViewArgs == {"v0", "v1"}
NextSoon ==
    \/ Display
    \/ OpenComm(ViewComm)
    \/ \E v \in ViewArgs : Set("style", Plain(v))
    \/ \E v \in ViewArgs : ViewSetSoon("style", v)
    \/ Deliver
    \/ BackendRecv

SpecSoon == Init /\ [][NextSoon]_vars

\* The same with one value on each side, and with set and trigger called
\* by the view's script as well.
NextView ==
    \/ Display
    \/ OpenComm(ViewComm)
    \/ Set("style", Plain("v0"))
    \/ ViewSetSoon("style", "v1")
    \/ ViewSet("style", "v1")
    \/ ViewTrigger("write", "v0")
    \/ Deliver
    \/ BackendRecv

SpecView == Init /\ [][NextView]_vars

\* -------------------------------------------------------- specifications
\* Binding: set calls on every object with every value, one Event and
\* every object as argument, and trigger calls on every object.
BindArgs ==
    PlainArgs \cup {Event(Plain("v0"), None, None)}
              \cup {Ref(y) : y \in Objs}
NextBind ==
    \/ \E x \in Objs, arg \in BindArgs : Set(x, arg)
    \/ \E x \in Objs : Fire(x, Plain("v0"))

SpecBind == Init /\ [][NextBind]_vars

\* Notification, under the colab transport: listeners are registered and
\* removed on style, p and write; p and write are bound to style; values
\* are set and triggers fired, before and after a view is rendered.
NotifyObjs == {"style", "p", "write"}
NotifyOn == {<<"write", "copy">>, <<"style", "copy">>, <<"style", "rec1">>,
             <<"p", "rec0">>}
NotifyArgs == {Plain("v0")}
NextNotify ==
    \/ \E r \in NotifyOn : On(r[1], r[2])
    \/ \E r \in NotifyOn : Off(r[1], UserCb(r[2]))
    \/ \E x \in NotifyObjs : Off(x, NoCb)
    \/ \E x \in NotifyObjs, arg \in NotifyArgs : Set(x, arg)
    \/ \E x \in NotifyObjs \ {CopyTo} : Set(x, Ref(CopyTo))
    \/ \E x \in NotifyObjs, arg \in NotifyArgs : Fire(x, arg)
    \/ Render

SpecNotify == InitColab /\ [][NextNotify]_vars

\* Inbound messages, under the colab transport: listeners that record,
\* print or raise are registered on style, on p and on write; style is
\* bound below p; values are set and triggered by the program and by
\* messages of a view, for names that are and are not properties.
RemoteOn == {<<"style", "rec1">>, <<"style", "boom">>, <<"style", "say">>,
             <<"p", "boom">>, <<"write", "boom">>, <<"write", "say">>}
RemoteNames == AttrNames
RemoteArgs == {Plain("v0"), Plain("v1")}
NextRemote ==
    \/ \E r \in RemoteOn : On(r[1], r[2])
    \/ Set("style", Ref("p"))
    \/ \E arg \in RemoteArgs : Set("p", arg)
    \/ \E arg \in RemoteArgs : Fire("style", arg)
    \/ \E n \in RemoteNames, arg \in RemoteArgs : Remote(n, arg)
    \/ Render

SpecRemote == InitColab /\ [][NextRemote]_vars

\* The attribute table: the program assigns values, Properties and
\* Triggers to the names style and write that Widget.__init__ bound and to
\* the name note, and fires the objects.
ModelArgs == {Plain("v0"), Plain("v1"), Ref("style"), Ref("p"), Ref("write")}
NextModel ==
    \/ \E n \in AttrNames, arg \in ModelArgs : Assign(n, arg)
    \/ \E x \in {"style", "p"} : Fire(x, Plain("v0"))

SpecModel == Init /\ [][NextModel]_vars

\* ------------------------------------------------------------ properties
\* a is x or is below x along the parent links
RECURSIVE Descends(_, _, _)
Descends(a, x, n) ==
    IF a = x THEN TRUE
    ELSE IF parent[a] = None \/ n = 0 THEN FALSE
    ELSE Descends(parent[a], x, n - 1)

\* the parent links lead from x to an object without parent in n steps
RECURSIVE ReachesRoot(_, _)
ReachesRoot(x, n) ==
    IF parent[x] = None THEN TRUE
    ELSE IF n = 0 THEN FALSE
    ELSE ReachesRoot(parent[x], n - 1)

Acyclic == \A x \in Objs : ReachesRoot(x, Cardinality(Objs))

\* C1: a Property without parent that is set to an ordinary value v holds v
\* afterwards, whatever it held before.
C1_RoundTrip ==
    (last.op = "set" /\ last.obj \in Props /\ last.arg.k = "val"
        /\ parent[last.obj] = None)
    => value[last.obj] = last.arg.v

C1_Witness ==
    /\ last.op = "set" /\ last.obj = "p" /\ last.arg = Plain("v0")
    /\ parent["p"] = None /\ value["p"] = "v0" /\ last.exc = "none"

\* C2: when A.set(B) returns for two distinct Properties, A's parent is B
\* and A holds B's value.
C2_BindAdopts ==
    (last.op = "set" /\ last.obj \in Props /\ IsProperty(last.arg)
        /\ last.arg.v # last.obj /\ last.exc = "none")
    => (parent[last.obj] = last.arg.v
        /\ value[last.obj] = value[last.arg.v])

C2_Witness ==
    /\ last.op = "set" /\ last.obj = "p" /\ last.arg = Ref("q")
    /\ last.exc = "none" /\ parent["p"] = "q" /\ parent["q"] = "style"
    /\ value["p"] = "v0" /\ value["q"] = "v0"

\* C3: when B.set(newval) returns for an ordinary value, every Property
\* bound to B, directly or through a chain of bound Properties, holds newval.
C3_Propagates ==
    (last.op = "set" /\ last.obj \in Props /\ last.arg.k = "val"
        /\ last.exc = "none")
    => \A a \in Props :
          Descends(a, last.obj, Cardinality(Objs)) => value[a] = last.arg.v

C3_Witness ==
    /\ last.op = "set" /\ last.obj = "q" /\ last.arg = Plain("v0")
    /\ last.exc = "none"
    /\ parent["p"] = "q" /\ parent["style"] = "p" /\ parent["q"] = None
    /\ value["p"] = "v0" /\ value["style"] = "v0" /\ value["q"] = "v0"

\* C4: with A bound to B and no object bound to itself, B.set(A) raises
\* ValueError and changes no parent link and no listener list.
C4_CycleAttemptChangesNothing ==
    [][(last'.op = "set" /\ last'.obj \in Props /\ IsProperty(last'.arg)
           /\ last'.arg.v # last'.obj
           /\ parent[last'.arg.v] = last'.obj
           /\ Acyclic)
       => (last'.exc = "ValueError" /\ parent' = parent
           /\ listeners' = listeners)]_vars

\* C5: the parent links never form a cycle.
C5_ParentChainAcyclic == Acyclic

\* the user callbacks registered on x, in the order of its listener list
UserCbsOf(x) ==
    LET us == SelectSeq(listeners[x], LAMBDA e : e.cb.kind = "user")
    IN  [i \in 1..Len(us) |-> us[i].cb.obj]

\* the user callbacks the last call invoked for notifications of x, in the
\* order of the calls
CallsOn(x) ==
    LET cs == SelectSeq(last.calls, LAMBDA c : c.obj = x)
    IN  [i \in 1..Len(cs) |-> cs[i].cb]

HasEntry(x, e) == \E i \in 1..Len(listeners[x]) : listeners[x][i] = e

\* C6: firing a Trigger that has no parent invokes the callbacks registered
\* on it in the order of registration, each entry exactly once.
C6_FanOut ==
    (last.op = "trigger" /\ parent[last.obj] = None)
    => CallsOn(last.obj) = UserCbsOf(last.obj)

C6_Witness ==
    /\ last.op = "trigger" /\ last.obj = "style" /\ parent["style"] = None
    /\ UserCbsOf("style") = <<"copy", "rec1">>
    /\ CallsOn("style") = <<"copy", "rec1">>

\* C7: no non-internal listener is invoked while another non-internal
\* listener is executing.
C7_ReentrancyGuard ==
    \A i \in 1..Len(last.calls) : last.calls[i].nested = 0

C7_Witness ==
    /\ last.op = "trigger" /\ last.obj = "write" /\ parent["write"] = None
    /\ viewcount > 0
    /\ UserCbsOf("write") = <<"copy">> /\ UserCbsOf("style") = <<"rec1">>
    /\ Len(last.calls) = 1 /\ last.calls[1].cb = "copy"
    /\ last.relayed = <<[name |-> "write", value |-> "v0"],
                        [name |-> "style", value |-> "v0"]>>

\* C8: when a running non-internal listener sets the Property style to v,
\* style holds v, every Property bound to style holds v, and v is relayed
\* to the view.
C8_InternalListenersFire ==
    \A i \in 1..Len(last.calls) :
        last.calls[i].cb = "copy" =>
            LET v == last.calls[i].value IN
            /\ value[CopyTo] = v
            /\ \A c \in Props :
                  (parent[c] = CopyTo /\ HasEntry(CopyTo, Entry(HandleOf(c), TRUE)))
                  => value[c] = v
            /\ (viewcount > 0 /\ HasEntry(CopyTo, Entry(SendCb, TRUE)))
               => \E j \in 1..Len(last.relayed) :
                     last.relayed[j] = [name |-> CopyTo, value |-> jsoncopy(v)]

C8_Witness ==
    /\ last.op = "trigger" /\ last.obj = "write" /\ parent["write"] = None
    /\ parent["p"] = "style" /\ viewcount > 0
    /\ Len(last.calls) = 1 /\ last.calls[1].cb = "copy"
    /\ last.calls[1].value = "v0"
    /\ value["style"] = "v0" /\ value["p"] = "v0"
    /\ last.relayed = <<[name |-> "write", value |-> "v0"],
                        [name |-> "style", value |-> "v0"]>>

C10_QueueFlushedInOrder ==
    [][/\ (last'.op = "open")
          => (wire'[last'.obj] = <<OkMsg>> \o JsonMsgs(queue)
              /\ queue' = <<>>)
       /\ (last'.op = "set" /\ viewcount > 0 /\ comms = <<>>)
          => (JsonMsgs(queue') = JsonMsgs(queue) \o last'.relayed
              /\ Len(last'.relayed) = 1
              /\ wire' = wire)
       /\ (last'.op = "set" /\ comms # <<>>)
          => (queue' = queue
              /\ \A c \in CommIds :
                    wire'[c] = IF IsOpen(c) THEN wire[c] \o last'.relayed
                               ELSE wire[c])]_vars

C10_Witness ==
    /\ last.op = "open" /\ queue = <<>> /\ comms = <<last.obj>>
    /\ wire[last.obj] = <<OkMsg, [name |-> "style", value |-> "v0"],
                          [name |-> "style", value |-> None],
                          [name |-> "style", value |-> "v0"]>>

\* the calls the last operation made to user callback cb for notifications
\* of x, and the entries of cb in x's listener list
CallsTo(x, cb) == SelectSeq(last.calls, LAMBDA c : c.obj = x /\ c.cb = cb)
EntriesOf(x, cb) == SelectSeq(listeners[x], LAMBDA e : e.cb = UserCb(cb))

\* C11: style.trigger(v) called while no notification is in progress, and
\* returning normally, invokes the callback rec1 registered on style once
\* per registration, each time with an Event of value v and name 'style',
\* at a moment when style already holds v.
C11_TriggerNotifiesOnce ==
    (last.op = "trigger" /\ last.obj = "style" /\ last.exc = "none")
    => /\ Len(CallsTo("style", "rec1")) = Len(EntriesOf("style", "rec1"))
       /\ \A i \in 1..Len(CallsTo("style", "rec1")) :
             LET c == CallsTo("style", "rec1")[i]
             IN  c.value = last.arg.v /\ c.name = "style"
                 /\ c.held = last.arg.v

C11_Witness ==
    /\ last.op = "trigger" /\ last.obj = "style" /\ last.exc = "none"
    /\ last.arg = Plain("v1") /\ parent["style"] = "p"
    /\ Len(EntriesOf("style", "rec1")) = 1
    /\ Len(CallsTo("style", "rec1")) = 1
    /\ CallsTo("style", "rec1")[1].held = "v1"
    /\ value["style"] = "v1" /\ value["p"] = "v1"

\* C12: after an inbound message (style, v) during whose handling a
\* listener raised, the Property style holds v.
C12_FaultKeepsValue ==
    (last.op = "remote" /\ last.obj = "style" /\ last.exc = "Raised")
    => value["style"] = last.arg.v

\* how many of the texts capture_output wrote during the last inbound
\* message are t
Written(t) == Len(SelectSeq(report.writes, LAMBDA w : w = t))

\* C13: an inbound message during whose handling a listener raised makes
\* capture_output trigger write exactly once with the traceback, and at
\* most once with captured output.
C13_OneFaultReport ==
    (last.op = "remote" /\ report.fault = "Raised")
    => (Written(TraceBack) = 1 /\ Written(Captured) <= 1)

\* C14: the receive-handler returns normally from every inbound message:
\* no exception raised by a listener or by the property lookup leaves it.
C14_FaultRecovered ==
    last.op = "remote" => last.exc = "none"

\* C15: an attribute name that holds a Trigger or Property holds the same
\* object after every step; an assignment to such a name is that object's
\* set: a plain value assigned to a Property is the value it then holds, a
\* Property assigned to a Property becomes its parent.
C15_AssignKeepsObject ==
    [][/\ \A n \in AttrNames : HasProp(attr, n) => attr'[n] = attr[n]
       /\ (last'.op = "assign" /\ HasProp(attr, last'.obj)
           /\ last'.exc = "none" /\ attr[last'.obj].v \in Props)
          => /\ last'.arg.k = "val"
                => value'[attr[last'.obj].v] = last'.arg.v
             /\ IsProperty(last'.arg)
                => parent'[attr[last'.obj].v] = last'.arg.v]_vars

C15_Witness ==
    /\ last.op = "assign" /\ last.obj = "style" /\ last.arg = Ref("p")
    /\ last.exc = "none"
    /\ attr["style"] = Ref("style") /\ parent["style"] = "p"
    /\ attr["note"] = Ref("write")

\* C29: once an object has a name, no step changes its name or its target.
C29_NameAssignedOnce ==
    [][\A x \in Objs :
          names[x] # None
          => (names'[x] = names[x] /\ targets'[x] = targets[x])]_vars

\* the requests of the view for name n that are in flight: those the
\* backend has not handled, and those whose answer has not reached the view
InFlight(n) ==
    Cardinality({i \in 1..Len(up) : up[i].name = n})
    + Cardinality({k \in echo : k > vpos /\ wire[ViewComm][k].name = n})

\* C16: under set_soon calls and inbound messages, the view has at most one
\* request in flight for each name.
C16_OneInFlight ==
    \A n \in Installed : InFlight(n) <= 1

\* a step of the view: nothing of the backend changes
ViewStep ==
    UNCHANGED <<parent, value, listeners, stack, env, viewcount, comms,
                queue, wire, pc, last, modelvars, echo>>

\* C17: set_soon for a name with a pending marker sends nothing and makes
\* its value the only pending one; a message received for a name with a
\* pending value sends exactly that value and leaves an empty marker; a
\* message received for a name with an empty marker sends nothing and
\* clears the marker.
C17_Coalesces ==
    [][/\ (ViewStep /\ vlast'.op = "set_soon" /\ vpos' = vpos
           /\ vsent[vlast'.name].has)
          => /\ up' = up
             /\ vsent'[vlast'.name] =
                    [has |-> TRUE, val |-> <<vlast'.value>>]
       /\ (ViewStep /\ vlast'.op = "recv" /\ vpos' = vpos + 1
           /\ vsent[vlast'.name].has)
          => IF vsent[vlast'.name].val = <<>>
             THEN up' = up /\ vsent'[vlast'.name] = NoSent
             ELSE /\ up' = Append(up, Msg(vlast'.name,
                                          vsent[vlast'.name].val[1]))
                  /\ vsent'[vlast'.name] = [has |-> TRUE, val |-> <<>>]]_vars

C17_Witness ==
    /\ vlast.op = "set_soon" /\ vlast.name = "style" /\ vlast.value = "v1"
    /\ vlast.over = <<"v0">> /\ vlast.sent = <<>>
    /\ vsent["style"] = [has |-> TRUE, val |-> <<"v1">>]
    /\ up = <<Msg("style", "v0")>>

\* C18: once the view exists its cache changes only in a step that
\* receives a message of the comm, and then only the entry of the
\* message's name, which becomes the message's value; set, set_soon and
\* trigger leave the cache as it is.
C18_CacheOnlyByMessage ==
    [][(viewcount > 0 /\ vdata' # vdata)
       => /\ ViewStep /\ vlast'.op = "recv" /\ vpos' = vpos + 1
          /\ wire[ViewComm][vpos + 1] = Msg(vlast'.name, vlast'.value)
          /\ vdata' = [vdata EXCEPT ![vlast'.name] = vlast'.value]]_vars

C18_Witness ==
    /\ vlast.op = "set" /\ vlast.name = "style" /\ vlast.value = "v1"
    /\ vlast.sent = <<Msg("style", "v1")>>
    /\ vdata["style"] = "v0" /\ value["style"] = "v0"

\* C19: 'ok' is the first message every comm carries, so it precedes the
\* queued messages; the step in which the view receives it changes neither the cache nor
\* the pending markers, sends nothing and invokes no view listener.
C19_Handshake ==
    [][/\ \A c \in CommIds :
             wire'[c] # <<>> => wire'[c][1] = OkMsg
       /\ (ViewStep /\ vpos' = vpos + 1 /\ wire[ViewComm][vpos + 1] = OkMsg)
          => /\ vlast'.op = "ok" /\ vlast'.calls = <<>>
             /\ vdata' = vdata /\ vsent' = vsent /\ up' = up]_vars

C19_Witness ==
    /\ vlast.op = "ok" /\ vlast.calls = <<>> /\ vpos = 1
    /\ wire[ViewComm] = <<OkMsg, Msg("style", "v0")>>
    /\ vdata["style"] = None /\ value["style"] = "v0"

\* C20: whenever no call is in progress the handler stack is empty, also
\* after calls that a listener left by raising.
C20_StackRestored ==
    pc = "idle" => stack = <<>>

C20_Witness ==
    /\ pc = "idle" /\ stack = <<>>
    /\ last.op = "remote" /\ last.obj = "style" /\ last.exc = "Raised"
    /\ parent["style"] = "p"
    /\ Len(CallsTo("style", "boom")) = 1
    /\ report.writes = <<TraceBack>>

\* C21: a set or trigger call on the widget's Property or Trigger made
\* while no view has been rendered puts nothing on any comm and nothing in
\* the queue.
C21_DroppedWithoutView ==
    [][(viewcount = 0 /\ last'.op \in {"set", "trigger"})
       => (wire' = wire /\ queue' = queue /\ last'.relayed = <<>>)]_vars

C21_Witness ==
    /\ last.op = "set" /\ last.obj = "style" /\ last.arg = Plain("v0")
    /\ value["style"] = "v0" /\ last.exc = "none"
    /\ viewcount = 0 /\ queue = <<>> /\ \A c \in CommIds : wire[c] = <<>>

\* C22: closing a comm removes that comm only: the other comms stay open
\* in their order and nothing is sent; a message relayed afterwards is
\* appended to every comm that is still open and to no other.
C22_CloseOnlyThat ==
    [][/\ (last'.op = "close")
          => /\ comms' = SelectSeq(comms, LAMBDA d : d # last'.obj)
             /\ \A d \in CommIds \ {last'.obj} :
                   IsOpen(d) => \E i \in 1..Len(comms') : comms'[i] = d
             /\ wire' = wire /\ queue' = queue
       /\ (last'.op \in {"set", "trigger"} /\ comms # <<>>)
          => /\ Len(last'.relayed) = 1
             /\ \A c \in CommIds :
                   wire'[c] = IF IsOpen(c) THEN wire[c] \o last'.relayed
                              ELSE wire[c]]_vars

C22_Witness ==
    /\ last.op = "set" /\ last.arg = Plain("v0")
    /\ comms = <<"c2">>
    /\ wire["c1"] = <<OkMsg>>
    /\ wire["c2"] = <<OkMsg, [name |-> "style", value |-> "v0"]>>

\* the object without parent that the parent links lead to from x, or None
\* when they lead to none within n steps
RECURSIVE RootOf(_, _)
RootOf(x, n) ==
    IF parent[x] = None THEN x
    ELSE IF n = 0 THEN None
    ELSE RootOf(parent[x], n - 1)
Root(x) == RootOf(x, Cardinality(Objs))

C26_WriteThrough ==
    [][(last'.op = "set" /\ last'.obj \in Props /\ last'.arg.k = "val"
           /\ parent[last'.obj] # None /\ Root(last'.obj) # None)
       => /\ last'.exc = "none"
          /\ parent' = parent
          /\ \A a \in Props :
                Root(a) = Root(last'.obj) => value'[a] = last'.arg.v]_vars

C26_Witness ==
    /\ last.op = "set" /\ last.obj = "q" /\ last.arg = Plain("v1")
    /\ last.exc = "none"
    /\ parent["q"] = "p" /\ parent["p"] = None /\ parent["style"] = "p"
    /\ value["q"] = "v1" /\ value["p"] = "v1" /\ value["style"] = "v1"

\* the entries of X.handle in the listener list of y
HandleEntries(y, x) ==
    SelectSeq(listeners[y], LAMBDA e : e.cb = HandleOf(x))
\* the last call was X.set(Q) on an X that had a parent P other than X,
\* for a Q that is neither X nor P, and it returned normally
Rebound ==
    /\ last.op = "set" /\ IsTrigger(last.arg) /\ last.exc = "none"
    /\ trace.left \notin {None, last.obj}
    /\ last.arg.v \notin {last.obj, trace.left}
\* y.set(v) called in the present state runs the handle of x
WouldReach(y, x) ==
    \E i \in 1..Len(SetCall(Cur, y, Plain("v1")).handled) :
        SetCall(Cur, y, Plain("v1")).handled[i] = x

\* C28 as stated: after X.set(Q) on an X that had parent P, P's listener
\* list holds no entry of X.handle, Q's holds exactly one, internal; P.set(v)
\* no longer reaches X and Q.set(v) does.
C28_Rebinds ==
    Rebound
    => /\ HandleEntries(trace.left, last.obj) = <<>>
       /\ HandleEntries(last.arg.v, last.obj)
             = <<Entry(HandleOf(last.obj), TRUE)>>
       /\ parent[last.obj] = last.arg.v
       /\ ~WouldReach(trace.left, last.obj)
       /\ WouldReach(last.arg.v, last.obj)

\* C28 as amended: the same, except that P.set(v) still reaches X when the
\* parent links of P and of Q lead to the same root, and only then.
C28_RebindsWithinTree ==
    Rebound
    => /\ HandleEntries(trace.left, last.obj) = <<>>
       /\ HandleEntries(last.arg.v, last.obj)
             = <<Entry(HandleOf(last.obj), TRUE)>>
       /\ parent[last.obj] = last.arg.v
       /\ WouldReach(trace.left, last.obj)
             <=> (trace.left \in Props /\ Root(trace.left) # None
                  /\ Root(trace.left) = Root(last.arg.v))
       /\ WouldReach(last.arg.v, last.obj)

C28_Witness ==
    /\ Rebound /\ last.obj = "q" /\ trace.left = "p" /\ last.arg = Ref("style")
    /\ parent["q"] = "style" /\ parent["p"] = None /\ parent["style"] = None
    /\ value["q"] = value["style"] /\ value["p"] # value["style"]
    /\ ~WouldReach("p", "q") /\ WouldReach("style", "q")

\* Rebinding, with the history recorded: every object is set to every
\* object, Properties are set to values, and every object is fired.
NextRebind ==
    \/ \E x \in Objs, y \in Objs : Set(x, Ref(y))
    \/ \E x \in Props, v \in {"v0", "v1"} : Set(x, Plain(v))
    \/ \E x \in Objs : Fire(x, Plain("v0"))

SpecRebind == InitWith("jupyter", TRUE) /\ [][NextRebind]_vars

\* x.on(y.handle): the bound method of another object is registered as an
\* ordinary listener, once
OnHandle(x, y) ==
    /\ pc = "idle"
    /\ ~HasEntry(x, Entry(HandleOf(y), FALSE))
    /\ Return([Cur EXCEPT !.listeners[x] = on(@, HandleOf(y), FALSE)],
              "on", x, CbArg(HandleOf(y)))

\* the last call was a set of a Trigger that is no Property to an ordinary
\* value, or of a Property to a Trigger that is no Property
MisTyped ==
    /\ last.op = "set"
    /\ \/ last.obj \in Trigs /\ last.arg.k = "val"
       \/ last.obj \in Props /\ IsTrigger(last.arg) /\ ~IsProperty(last.arg)

\* C23: a mis-typed set raises ValueError, and during it no handle runs, no
\* user callback is called and nothing is relayed to a view.
C23_MisTypedSetIsSilent ==
    MisTyped
    => /\ last.exc = "ValueError"
       /\ last.calls = <<>> /\ last.relayed = <<>>
       /\ trace.handled = <<>>

C23_Witness ==
    /\ MisTyped /\ last.obj = "style" /\ last.arg = Ref("write")
    /\ last.exc = "ValueError" /\ last.calls = <<>>
    /\ viewcount > 0
    /\ Len(EntriesOf("style", "rec1")) = 1
    /\ Len(EntriesOf("write", "rec1")) = 1
    /\ HasEntry("style", Entry(SendCb, TRUE))

\* C27: off(cb) with a callback leaves in the listener list exactly the
\* entries whose callback is not cb, in their order, whether the entries
\* removed are internal or not, and changes no other list.
C27_OffRemovesMatching ==
    [][(last'.op = "off" /\ last'.arg.v # None)
       => listeners' =
            [listeners EXCEPT ![last'.obj] =
                SelectSeq(@, LAMBDA e : e.cb.obj # last'.arg.v)]]_vars

C27_Witness ==
    /\ last.op = "off" /\ last.obj = "style" /\ last.arg.v = "p"
    /\ trace.removed = 2 /\ parent["p"] = "style"
    /\ listeners["style"] = <<Entry(SendCb, TRUE),
                              Entry(UserCb("rec1"), FALSE),
                              Entry(UserCb("rec1"), FALSE)>>

\* a step that renders a view
Renders == Len(trace'.issued) = Len(trace.issued) + 1

\* C30 as stated: a rendering raises the view counter by one and no step
\* lowers it, the element ids of the renderings differ, and the snapshot of a
\* rendering holds, for every Property among the widget's attributes, the
\* value the Property holds.
C30_RenderSnapshot ==
    [][/\ viewcount' >= viewcount
       /\ \A i, j \in 1..Len(trace'.issued) :
             i # j => trace'.issued[i] # trace'.issued[j]
       /\ Renders
          => /\ viewcount' = viewcount + 1
             /\ trace'.viewid = viewcount'
             /\ \A n \in AttrNames :
                   IF IsProperty(attr[n])
                   THEN trace'.snapshot[n] = value[attr[n].v]
                   ELSE trace'.snapshot[n] = Absent]_vars

\* C30 as amended: the snapshot holds the value when it is a JSON atom and
\* null when JSON cannot represent it.
C30_RenderJsonSnapshot ==
    [][/\ viewcount' >= viewcount
       /\ \A i, j \in 1..Len(trace'.issued) :
             i # j => trace'.issued[i] # trace'.issued[j]
       /\ Renders
          => /\ viewcount' = viewcount + 1
             /\ trace'.viewid = viewcount'
             /\ \A n \in AttrNames :
                   IF IsProperty(attr[n])
                   THEN trace'.snapshot[n] =
                           IF value[attr[n].v] \in Atoms \cup {None}
                           THEN value[attr[n].v] ELSE None
                   ELSE trace'.snapshot[n] = Absent]_vars

C30_Witness ==
    /\ last.op = "render" /\ viewcount = 2 /\ trace.issued = <<1, 2>>
    /\ trace.viewid = 2
    /\ value["style"] = "obj" /\ value["p"] = "v0"
    /\ attr["note"] = Ref("p")
    /\ trace.snapshot = [n \in AttrNames |->
                            CASE n = "style" -> None
                              [] n = "note" -> "v0"
                              [] OTHER -> Absent]

\* Listeners, under colab with the history recorded: callbacks and a bound
\* method are registered on style and write and removed from style, p is
\* bound below style, well-typed and mis-typed sets are made, write is
\* fired, a view is rendered.
NextListen ==
    \/ \E x \in {"style", "write"} : On(x, "rec1")
    \/ OnHandle("style", "p")
    \/ \E cb \in {UserCb("rec1"), HandleOf("p"), SendCb} : Off("style", cb)
    \/ Set("p", Ref("style"))
    \/ Set("style", Ref("write"))
    \/ Set("write", Plain("v0"))
    \/ Set("style", Plain("v0"))
    \/ Fire("write", Plain("v0"))
    \/ Render

SpecListen == InitWith("colab", TRUE) /\ [][NextListen]_vars

\* Renderings, under colab with the history recorded: views are rendered
\* while style and p take values that are and are not JSON, p is bound
\* below style, and p is installed as the attribute note.
NextShow ==
    \/ RenderTo(MaxRender)
    \/ \E v \in {"v0", "obj"} : Set("style", Plain(v))
    \/ Set("p", Plain("v0"))
    \/ Set("p", Ref("style"))
    \/ Assign("note", Ref("p"))

SpecShow == InitWith("colab", TRUE) /\ [][NextShow]_vars

\* Transport, under jupyter: views are rendered, comms open and close, and
\* the widget's style is set to a JSON atom and to a value that is not JSON.
TransportArgs == {Plain("v0"), Plain("obj")}
NextTransport ==
    \/ Render
    \/ \E c \in CommIds : OpenComm(c)
    \/ \E c \in CommIds : CloseComm(c)
    \/ \E arg \in TransportArgs : Set("style", arg)

SpecTransport == Init /\ [][NextTransport]_vars

\* Before and after the first view, under jupyter with one comm: style is
\* set directly and through the Property p bound below it, and the write
\* event is fired.
NextDrop ==
    \/ Render
    \/ OpenComm(ViewComm)
    \/ \E arg \in TransportArgs : Set("style", arg)
    \/ Set("p", Ref("style"))
    \/ Set("p", Plain("v1"))
    \/ Fire("write", Plain("v0"))

SpecDrop == Init /\ [][NextDrop]_vars

NextNone ==
    \/ Render
    \/ \E x \in {"style", "write"} : On(x, "rec1")
    \/ \E arg \in TransportArgs : Set("style", arg)
    \/ Set("p", Ref("style"))
    \/ Set("p", Plain("v1"))
    \/ Fire("write", Plain("v0"))

SpecNone == InitEnv("none") /\ [][NextNone]_vars

\* the internal entries of X.handle in the listener list of y
InternalEntries(y, x) ==
    SelectSeq(listeners[y], LAMBDA e : e = Entry(HandleOf(x), TRUE))

\* C31: X.parent is P exactly when the listener list of P holds X.handle
\* as an internal entry, and then it holds it exactly once.
C31_BindingLinkConsistent ==
    \A x \in Objs, y \in Objs :
        /\ parent[x] = y => Len(InternalEntries(y, x)) = 1
        /\ parent[x] # y => Len(InternalEntries(y, x)) = 0

\* C32: between calls, every Property that has a parent holds the value of
\* the root of its parent chain, whatever set and trigger calls were made
\* and whether or not a listener raised.
C32_BoundValueConsistent ==
    \A x \in Props :
        (parent[x] # None /\ Root(x) # None) => value[x] = value[Root(x)]

\* C33: a set call that raises ValueError (a cycle attempt, a plain value
\* given to a Trigger that is no Property, a Trigger that is no Property
\* given to a Property) leaves every parent link, every listener list and
\* every Property value as it was before the call.
C33_FailedSetChangesNothing ==
    [][(last'.op = "set" /\ last'.exc = "ValueError")
       => (parent' = parent /\ listeners' = listeners /\ value' = value)]_vars

\* C34: under the jupyter transport, after every operation the queue is
\* empty whenever a comm is open and no comm is listed twice; a set or
\* trigger call made while comms are open leaves the queue empty and adds
\* its relayed messages once to every open comm and to no other.
C34_DuplexTransport ==
    [][/\ comms' # <<>> => queue' = <<>>
       /\ \A i, j \in 1..Len(comms') : comms'[i] = comms'[j] => i = j
       /\ (last'.op \in {"set", "trigger"} /\ comms # <<>>)
          => \A c \in CommIds :
                /\ Len(wire'[c]) =
                     Len(wire[c]) + (IF IsOpen(c) THEN Len(last'.relayed)
                                     ELSE 0)
                /\ IsOpen(c) =>
                     SubSeq(wire'[c], Len(wire[c]) + 1, Len(wire'[c]))
                       = last'.relayed]_vars

C34_Witness ==
    /\ last.op = "set" /\ last.arg = Plain("obj")
    /\ comms = <<"c1", "c2">> /\ queue = <<>>
    /\ wire["c1"] = <<OkMsg, [name |-> "style", value |-> "v0"],
                      [name |-> "style", value |-> None]>>
    /\ wire["c2"] = <<OkMsg, [name |-> "style", value |-> None]>>

\* Several views, under jupyter with the history recorded: each rendered
\* view runs in a page of its own and opens a comm of its own, the i-th
\* view the i-th comm; comms open and close and style is set.
ViewCommOf(i) == IF i = 1 THEN "c1" ELSE "c2"
NextViews ==
    \/ RenderTo(MaxRender)
    \/ \E i \in 1..Cardinality(CommIds) :
          i <= viewcount /\ OpenComm(ViewCommOf(i))
    \/ \E c \in CommIds : CloseComm(c)
    \/ \E v \in {"v0", "v1"} : Set("style", Plain(v))

SpecViews == InitWith("jupyter", TRUE) /\ [][NextViews]_vars

\* the cache of a view's Model that was constructed with the snapshot
\* data, once the messages ms of its comm have all reached it: 'ok' is
\* dropped by the comm's callback, every other message is stored by name
RECURSIVE Cached(_, _)
Cached(data, ms) ==
    IF ms = <<>> THEN data
    ELSE IF Head(ms) = OkMsg THEN Cached(data, Tail(ms))
    ELSE Cached([data EXCEPT ![Head(ms).name] = Head(ms).value], Tail(ms))

\* C35: for every rendered view whose comm is open, once every message
\* sent on the comm has been delivered the view's cached value of style is
\* the JSON form of the backend's present value.
C35_ViewsConverge ==
    \A i \in 1..Len(trace.seeds) :
        (i <= Cardinality(CommIds) /\ IsOpen(ViewCommOf(i)))
        => Cached(trace.seeds[i], wire[ViewCommOf(i)])["style"]
             = jsoncopy(value["style"])

\* Installation, under colab with the history recorded: listeners that
\* record and that raise are registered on p and on style, before and
\* after p is installed once in the widget as the attribute note; a view
\* is rendered, the properties are set and fired.
NextInstall ==
    \/ \E x \in {"p", "style"}, cb \in {"rec1", "boom"} : On(x, cb)
    \/ ~HasProp(attr, "note") /\ Assign("note", Ref("p"))
    \/ Render
    \/ \E x \in {"p", "style"} : Set(x, Plain("v0"))
    \/ \E x \in {"p", "style"} : Fire(x, Plain("v1"))

SpecInstall == InitWith("colab", TRUE) /\ [][NextInstall]_vars

\* C36: once a view exists, a set or trigger call on a Property that is
\* installed in the widget and has no parent hands its message to the
\* transport before any user listener runs, whether or not a user
\* listener raises.
C36_RelayBeforeListeners ==
    (/\ last.op \in {"set", "trigger"}
     /\ names[last.obj] # None /\ parent[last.obj] = None
     /\ viewcount > 0)
    => (trace.order # <<>> /\ trace.order[1] = "relay")

\* C37: the handling of an inbound message leaves sys.stdout and
\* sys.stderr as they were before it began, whether it ends normally or
\* with a fault in a listener, a listener of the write event included.
C37_StreamsRestored ==
    [][last'.op = "remote" => report'.streams = report.streams]_vars

\* set_soon under fair scheduling, under jupyter with one comm and the
\* history recorded: the view's script calls set_soon at most MaxSoon
\* times, the program sets style while the comm is open and the comm has
\* room left for the answers to come.  The page opens its comm, the
\* browser delivers what the comm carries and the kernel handles what the
\* view sent: none of the three is postponed for ever.
SetRoom ==
    /\ IsOpen(ViewComm)
    /\ Len(wire[ViewComm]) + Len(up) + Len(vsent["style"].val)
         + (MaxSoon - vlast.soons) < MaxRelay + 1
NextSoonLive ==
    \/ Display
    \/ OpenComm(ViewComm)
    \/ \E v \in ViewArgs : SetRoom /\ Set("style", Plain(v))
    \/ \E v \in ViewArgs : vlast.soons < MaxSoon /\ ViewSetSoon("style", v)
    \/ Deliver
    \/ BackendRecv

\* BackendRecv can be taken: this is ENABLED <<BackendRecv>>_vars, since
\* a step of BackendRecv shortens up
BackendReady == pc = "idle" /\ RelayRoom /\ IsOpen(ViewComm) /\ up # <<>>

\* weak fairness of the three; for BackendRecv, WF_vars(BackendRecv) is
\* written out with its enabling condition
SpecSoonLive ==
    /\ InitWith("jupyter", TRUE)
    /\ [][NextSoonLive]_vars
    /\ WF_vars(OpenComm(ViewComm))
    /\ WF_vars(Deliver)
    /\ ([]<>(~BackendReady) \/ []<><<BackendRecv>>_vars)

\* set_soon was called, the last value passed is the last value the view
\* sent for the name, and no marker is left
Settled ==
    vlast.soons > 0 =>
        (~vsent["style"].has /\ vlast.lastsent = vlast.wanted)

====
